---- MODULE Spec2Model ----
(***************************************************************************)
(* Two Pong processes (main.py: NetworkManager + PongGame) on one LAN.     *)
(* Each process is a record of the fields of its NetworkManager and        *)
(* PongGame objects; every handler of main.py is an operator from process  *)
(* state to process state that also appends to the process's outbox, and   *)
(* every action runs one whole handler and then moves the outbox into the  *)
(* receivers' inboxes.                                                     *)
(***************************************************************************)
EXTENDS Integers, Sequences, FiniteSets, TLC

VARIABLES
    proc,      \* proc[p]: the state of process p (fields named as in main.py)
    inbox,     \* inbox[p]: datagrams sent to p and not yet received, in order
    air,       \* <<q, p>>: the last announcement of q, who has stopped
               \* publishing, is still on its way to p, who listens
    sent,      \* the datagrams the last step handed to the transport
    foreign,   \* number of datagrams a third process on the LAN has sent
    lost,      \* the datagrams the network has dropped: <<receiver, first key>>
    goals      \* number of points scored on the field so far

vars == <<proc, inbox, air, sent, foreign, lost, goals>>

(***************************************************************************)
(* Bounds of the model.                                                    *)
(***************************************************************************)
MaxForeign == 2      \* datagrams the third process sends
MaxInbox == 4        \* datagrams in flight to one process
MaxLost == 2         \* datagrams the network drops
MaxBacklog == 1      \* datagrams in flight to the peer when a local event fires
MaxGoals == 2        \* points scored on the field in a bounded game
MaxPadY == 1         \* highest paddle position, in paddle steps
FieldW == 2          \* width of the playing field in ball steps

(***************************************************************************)
(* Program constants.                                                      *)
(***************************************************************************)
POINTS_TO_WIN == 10
NameLo == 1000000
NameHi == 10000000

Peers == {1, 2}
Other(p) == IF p = 1 THEN 2 ELSE 1

\* Addresses (ip, port) and keys are opaque; "" is a missing key (falsy).
NoAddr == "None"
ForeignAddr == "addrF"
Addr(p) == IF p = 1 THEN "addr1" ELSE "addr2"
AllAddrs == {Addr(p) : p \in Peers} \cup {ForeignAddr}
PeerAt(a) == CHOOSE p \in Peers : Addr(p) = a
PubKey(p) == IF p = 1 THEN "enc1" ELSE "enc2"
SignKey(p) == IF p = 1 THEN "sign1" ELSE "sign2"
NoKeys == [a \in AllAddrs |-> <<"", "">>]

(***************************************************************************)
(* Strings are sequences of code points; Python compares them              *)
(* lexicographically, a proper prefix being the smaller.                   *)
(***************************************************************************)
RECURSIVE Digits(_)
Digits(n) == IF n < 10 THEN <<48 + n>> ELSE Append(Digits(n \div 10), 48 + (n % 10))

\* "Dave_{}".format(n)
PlayerName(n) == <<68, 97, 118, 101, 95>> \o Digits(n)
Anonymous == <<97, 110, 111, 110>>
NoName == <<>>
ForeignName == <<69, 118, 101>>

RECURSIVE StrLess(_, _)
StrLess(a, b) ==
    IF b = <<>> THEN FALSE
    ELSE IF a = <<>> THEN TRUE
    ELSE IF Head(a) # Head(b) THEN Head(a) < Head(b)
    ELSE StrLess(Tail(a), Tail(b))

\* The player numbers the model draws from randint(NameLo, NameHi).
NameSamples == {NameLo, NameLo + 1, NameHi}

(***************************************************************************)
(* PongGame.__init__ (and NetworkManager.__init__): discovery is started,  *)
(* the game is paused and waits for an opponent.                           *)
(***************************************************************************)
InitProc(p, n) ==
    [ alive           |-> TRUE,
      pl_name         |-> PlayerName(n),
      my_addr         |-> Addr(p),      \* (self.ip, self.port)
      pub_key         |-> PubKey(p),
      sign_key        |-> SignKey(p),
      addr_opponent   |-> NoAddr,
      listener        |-> "active",     \* self.listener: none / active / stopped
      orphans         |-> 0,            \* started listeners no longer referenced
      publishing      |-> TRUE,
      udp_peers       |-> {},           \* addresses the transport knows (add_peer)
      peer_keys       |-> NoKeys,       \* keys the transport holds (update_peer_keys)
      calls           |-> <<>>,         \* transport calls of the last update_opponent_ip
      is_connected    |-> FALSE,
      sym_init        |-> FALSE,
      game_owner      |-> TRUE,
      game_over       |-> FALSE,
      is_synchronized |-> FALSE,
      sync_state      |-> "waiting",
      pause           |-> TRUE,
      end_game_text   |-> "Searching for opponent...",
      enemy_name      |-> NoName,
      me              |-> "none",       \* none / player1 / player2
      score1          |-> 0,            \* player1.score
      score2          |-> 0,            \* player2.score
      ball_x          |-> 0,
      ball_vx         |-> 0,
      pad1            |-> <<0, 0>>,       \* player1.pos
      pad2            |-> <<FieldW, 0>>,  \* player2.pos
      last_sent_pos   |-> <<0, 0>>,
      drivers         |-> 0,            \* Clock.schedule_interval(self.update) calls
      ready_timers    |-> 0,            \* pending Clock.schedule_once text resets
      udp_down        |-> FALSE,        \* udp.send_data raises (no route, adapter error)
      exc             |-> FALSE,        \* a handler raised in the running receive call
      out             |-> <<>> ]        \* datagrams handed to the transport

\* The announcement record a process publishes (self.mc_msg).
mc_msg(p) ==
    [ addr |-> Addr(p), name |-> proc[p].pl_name, enc_key |-> PubKey(p),
      key |-> "", sign_key |-> SignKey(p), type |-> "pong" ]

(***************************************************************************)
(* NetworkManager                                                          *)
(***************************************************************************)
Msg(k, v) == <<[k |-> k, v |-> v]>>

\* A datagram is text: json.dumps of a dict, or bytes that are no JSON.
json_dumps(data) == [json |-> TRUE, items |-> data]
NotJson == [json |-> FALSE, items |-> <<>>]

\* A failed send that makes the process forget its opponent.
send_game_data_forget(s, data) ==
    IF s.addr_opponent = NoAddr THEN s
    ELSE IF s.udp_down THEN [s EXCEPT !.addr_opponent = NoAddr]
    ELSE [s EXCEPT !.out = Append(@, [to |-> s.addr_opponent, data |-> json_dumps(data)])]

\* The exception of a failing udp.send_data is caught and logged.
send_game_data(s, data) ==
    IF s.addr_opponent = NoAddr THEN s
    ELSE IF s.udp_down THEN s
    ELSE [s EXCEPT !.out = Append(@, [to |-> s.addr_opponent, data |-> json_dumps(data)])]

\* A registry that registers the address on every call, known or not.
update_opponent_ip_readd(s, addr, enc_key, sign_key) ==
    LET s1 == [s EXCEPT !.addr_opponent = addr, !.calls = <<>>]
        s2 == IF enc_key # "" /\ sign_key # ""
              THEN [s1 EXCEPT !.peer_keys[addr] = <<enc_key, sign_key>>,
                              !.calls = Append(@, <<"update_peer_keys", addr>>)]
              ELSE s1
    IN  [s2 EXCEPT !.udp_peers = @ \cup {addr},
                   !.calls = Append(@, <<"add_peer", addr>>)]

update_opponent_ip(s, addr, enc_key, sign_key) ==
    LET s1 == [s EXCEPT !.addr_opponent = addr, !.calls = <<>>]
        s2 == IF enc_key # "" /\ sign_key # ""
              THEN [s1 EXCEPT !.peer_keys[addr] = <<enc_key, sign_key>>,
                              !.calls = Append(@, <<"update_peer_keys", addr>>)]
              ELSE s1
    IN  IF addr \notin s2.udp_peers
        THEN [s2 EXCEPT !.udp_peers = @ \cup {addr},
                        !.calls = Append(@, <<"add_peer", addr>>)]
        ELSE s2

start_search_for_opponent(s) ==
    [s EXCEPT !.orphans = IF s.listener = "active" THEN @ + 1 ELSE @,
              !.listener = "active",
              !.publishing = TRUE]

stop_search_for_opponent(s) ==
    [s EXCEPT !.listener = IF @ = "none" THEN "none" ELSE "stopped",
              !.publishing = FALSE]

(***************************************************************************)
(* PongGame: session set-up and the readiness handshake                    *)
(***************************************************************************)
\* A role decision that compares the names' lengths, not the names.
owner_by_length(my_name, enemy_name) == Len(my_name) < Len(enemy_name)

_determine_game_owner(my_name, enemy_name) == StrLess(my_name, enemy_name)

serve_ball(s, vel) == [s EXCEPT !.ball_x = FieldW \div 2, !.ball_vx = vel]

start_synchronization(s) ==
    send_game_data([s EXCEPT !.sync_state = "ready",
                             !.end_game_text = "Synchronizing...",
                             !.pause = TRUE],
                   Msg("sync_ready", TRUE))

complete_synchronization(s) ==
    IF ~s.is_synchronized
    THEN [s EXCEPT !.is_synchronized = TRUE,
                   !.sync_state = "synchronized",
                   !.pause = FALSE,
                   !.end_game_text = "READY!",
                   !.ready_timers = @ + 1]
    ELSE s

init_game_connection(s) ==
    LET s1 == IF s.game_owner
              THEN send_game_data([s EXCEPT !.me = "player1"], Msg("win_size", <<800, 600>>))
              ELSE [s EXCEPT !.me = "player2", !.ball_x = FieldW, !.ball_vx = -1]
        s2 == serve_ball(s1, 1)
        s3 == [s2 EXCEPT !.drivers = @ + 1]
    IN  start_synchronization(s3)

on_opponent_found(s, msg) ==
    LET s1 == [s EXCEPT !.enemy_name = msg.name,
                        !.game_owner = _determine_game_owner(s.pl_name, msg.name),
                        !.is_connected = TRUE]
    IN  stop_search_for_opponent(init_game_connection(s1))

on_game_init(s, data) ==
    IF ~s.is_connected
    THEN LET client_name == IF data.name = NoName THEN Anonymous ELSE data.name
             s1 == [s EXCEPT !.sym_init = TRUE,
                             !.enemy_name = client_name,
                             !.game_owner = _determine_game_owner(s.pl_name, client_name)]
             s2 == init_game_connection(s1)
         IN  stop_search_for_opponent([s2 EXCEPT !.is_connected = TRUE])
    ELSE s

\* A dispatched event carries the one-key dict {key: value}.
Has(data, k) == \E i \in 1..Len(data) : data[i].k = k
Get(data, k) == (CHOOSE i \in 1..Len(data) : data[i].k = k)
GetValue(data, k) == data[Get(data, k)].v

\* A handshake that answers sync_ready only while still waiting, and never
\* acknowledges it.
sync_complete_no_ack(s, data) ==
    IF Has(data, "sync_ready") /\ GetValue(data, "sync_ready")
    THEN IF s.sync_state = "waiting"
         THEN send_game_data([s EXCEPT !.sync_state = "ready"], Msg("sync_ready", TRUE))
         ELSE s
    ELSE IF Has(data, "sync_ack") /\ GetValue(data, "sync_ack")
    THEN IF s.sync_state = "ready" THEN complete_synchronization(s) ELSE s
    ELSE s

\* A handshake that completes on the opponent's sync_ready only and ignores
\* sync_ack.
sync_complete_ready_only(s, data) ==
    IF Has(data, "sync_ready") /\ GetValue(data, "sync_ready")
    THEN LET s1 == IF s.sync_state = "waiting"
                   THEN send_game_data([s EXCEPT !.sync_state = "ready"],
                                       Msg("sync_ready", TRUE))
                   ELSE s
         IN  IF s1.sync_state = "ready"
             THEN complete_synchronization(send_game_data(s1, Msg("sync_ack", TRUE)))
             ELSE s1
    ELSE s

on_sync_complete(s, data) ==
    IF Has(data, "sync_ready") /\ GetValue(data, "sync_ready")
    THEN LET s1 == IF s.sync_state = "waiting"
                   THEN send_game_data([s EXCEPT !.sync_state = "ready"],
                                       Msg("sync_ready", TRUE))
                   ELSE s
         IN  IF s1.sync_state = "ready"
             THEN complete_synchronization(send_game_data(s1, Msg("sync_ack", TRUE)))
             ELSE s1
    ELSE IF Has(data, "sync_ack") /\ GetValue(data, "sync_ack")
    THEN IF s.sync_state = "ready" THEN complete_synchronization(s) ELSE s
    ELSE s

(***************************************************************************)
(* PongGame: scores, game data and game status                             *)
(***************************************************************************)
Score(s, player) == IF player = "player1" THEN s.score1 ELSE s.score2

\* A win check that needs more than POINTS_TO_WIN points.
check_player_win_above(s, player) ==
    IF Score(s, player) > POINTS_TO_WIN
    THEN LET s1 == [s EXCEPT !.game_over = TRUE, !.pause = TRUE]
         IN  IF player = s.me
             THEN LET s2 == [s1 EXCEPT !.end_game_text = "You won!!!"]
                  IN  IF s2.is_connected /\ s2.game_owner
                      THEN send_game_data(s2, Msg("game_over", TRUE) \o Msg("winner", player))
                      ELSE s2
             ELSE [s1 EXCEPT !.end_game_text = "You lost"]
    ELSE s

\* A win check that takes player1 for the local player on both sides.
check_player_win_first(s, player) ==
    IF Score(s, player) >= POINTS_TO_WIN
    THEN LET s1 == [s EXCEPT !.game_over = TRUE, !.pause = TRUE]
         IN  IF player = "player1"
             THEN LET s2 == [s1 EXCEPT !.end_game_text = "You won!!!"]
                  IN  IF s2.is_connected /\ s2.game_owner
                      THEN send_game_data(s2, Msg("game_over", TRUE) \o Msg("winner", player))
                      ELSE s2
             ELSE [s1 EXCEPT !.end_game_text = "You lost"]
    ELSE s

check_player_win(s, player) ==
    IF Score(s, player) >= POINTS_TO_WIN
    THEN LET s1 == [s EXCEPT !.game_over = TRUE, !.pause = TRUE]
         IN  IF player = s.me
             THEN LET s2 == [s1 EXCEPT !.end_game_text = "You won!!!"]
                  IN  IF s2.is_connected /\ s2.game_owner
                      THEN send_game_data(s2, Msg("game_over", TRUE) \o Msg("winner", player))
                      ELSE s2
             ELSE [s1 EXCEPT !.end_game_text = "You lost"]
    ELSE s

on_score_update(s, data) ==
    IF Has(data, "score_pl1")
    THEN check_player_win([s EXCEPT !.score1 = GetValue(data, "score_pl1")], "player1")
    ELSE IF Has(data, "score_pl2")
    THEN check_player_win([s EXCEPT !.score2 = GetValue(data, "score_pl2")], "player2")
    ELSE s

\* self.enemy is None until init_game_connection: setting its pos raises.
on_game_data_update(s, data) ==
    IF Has(data, "pad_pos")
    THEN IF s.me = "none" THEN [s EXCEPT !.exc = TRUE]
         ELSE IF s.me = "player1" THEN [s EXCEPT !.pad2 = GetValue(data, "pad_pos")]
         ELSE [s EXCEPT !.pad1 = GetValue(data, "pad_pos")]
    ELSE IF Has(data, "ball_vel") THEN [s EXCEPT !.ball_vx = GetValue(data, "ball_vel")]
    ELSE IF Has(data, "ball_pos") THEN [s EXCEPT !.ball_x = GetValue(data, "ball_pos")]
    ELSE s

on_game_status_update(s, data) ==
    IF Has(data, "reset_scores")
    THEN [s EXCEPT !.score1 = 0, !.score2 = 0, !.pause = FALSE, !.game_over = FALSE,
                   !.end_game_text = "", !.is_synchronized = TRUE]
    ELSE IF Has(data, "game_close")
    THEN start_search_for_opponent(
             [s EXCEPT !.score1 = 0, !.score2 = 0, !.pause = TRUE,
                       !.is_connected = FALSE, !.game_over = FALSE,
                       !.is_synchronized = FALSE, !.sync_state = "waiting",
                       !.end_game_text = "Enemy left - Searching..."])
    ELSE IF Has(data, "game_over")
    THEN LET winner == IF Has(data, "winner") THEN GetValue(data, "winner") ELSE "None"
         IN  [s EXCEPT !.game_over = TRUE, !.pause = TRUE,
                       !.end_game_text =
                           IF winner = "player1" /\ s.me = "player1" THEN "You won!!!"
                           ELSE IF winner = "player2" /\ s.me = "player2" THEN "You won!!!"
                           ELSE "You lost"]
    ELSE IF Has(data, "pause") THEN [s EXCEPT !.pause = GetValue(data, "pause")]
    ELSE s

(***************************************************************************)
(* NetworkManager: the two receive handlers                                *)
(***************************************************************************)
\* self.event_map
event_map(key) ==
    IF key \in {"score_pl1", "score_pl2"} THEN "on_score_update"
    ELSE IF key \in {"pad_pos", "ball_vel", "ball_pos"} THEN "on_game_data_update"
    ELSE IF key \in {"pause", "win_size", "reset_scores", "game_close", "game_over"}
         THEN "on_game_status_update"
    ELSE IF key \in {"sync_ready", "sync_ack"} THEN "on_sync_complete"
    ELSE "None"

dispatch(s, event_name, data) ==
    IF event_name = "on_score_update" THEN on_score_update(s, data)
    ELSE IF event_name = "on_game_data_update" THEN on_game_data_update(s, data)
    ELSE IF event_name = "on_game_status_update" THEN on_game_status_update(s, data)
    ELSE IF event_name = "on_sync_complete" THEN on_sync_complete(s, data)
    ELSE s

\* An announcement handler that accepts every session type.
handle_multicast_any_type(s, msg) ==
    IF msg.name = s.pl_name THEN s
    ELSE LET enc_key == IF msg.enc_key # "" THEN msg.enc_key ELSE msg.key
         IN  IF enc_key = "" THEN s
             ELSE LET s1 == update_opponent_ip(s, msg.addr, enc_key, msg.sign_key)
                      s2 == send_game_data(s1, Msg("init",
                                [ addr |-> s.my_addr, enc_key |-> s.pub_key, key |-> "",
                                  sign_key |-> s.sign_key, name |-> s.pl_name ]))
                      s3 == [s2 EXCEPT !.publishing = FALSE]
                  IN  on_opponent_found(s3, [name |-> msg.name])

_handle_multicast_message(s, msg) ==
    IF msg.name = s.pl_name THEN s
    ELSE IF msg.type # "pong" THEN s
    ELSE LET enc_key == IF msg.enc_key # "" THEN msg.enc_key ELSE msg.key
         IN  IF enc_key = "" THEN s
             ELSE LET s1 == update_opponent_ip(s, msg.addr, enc_key, msg.sign_key)
                      s2 == send_game_data(s1, Msg("init",
                                [ addr |-> s.my_addr, enc_key |-> s.pub_key, key |-> "",
                                  sign_key |-> s.sign_key, name |-> s.pl_name ]))
                      s3 == [s2 EXCEPT !.publishing = FALSE]
                  IN  on_opponent_found(s3, [name |-> msg.name])

\* The loop over data_dict.items(); an "init" key ends it, and so does a
\* handler that raises.
RECURSIVE handle_items(_, _, _)
handle_items(s, items, addr) ==
    IF items = <<>> \/ s.exc THEN s
    ELSE LET key == Head(items).k
             value == Head(items).v
         IN  IF key = "init"
             THEN LET client_addr == IF value.addr = NoAddr THEN addr ELSE value.addr
                      enc_key == IF value.enc_key # "" THEN value.enc_key ELSE value.key
                      s1 == IF enc_key # ""
                            THEN update_opponent_ip(s, client_addr, enc_key, value.sign_key)
                            ELSE s
                  IN  on_game_init(s1, value)
             ELSE handle_items(dispatch(s, event_map(key), Msg(key, value)),
                               Tail(items), addr)

\* A receive handler that lets the decoding error escape to its caller.
handle_udp_data_raising(s, data, addr) ==
    IF ~data.json THEN [s EXCEPT !.exc = TRUE, !.end_game_text = "error"]
    ELSE handle_items(s, data.items, addr)

_handle_udp_data(s, data, addr) ==
    IF ~data.json THEN s
    ELSE handle_items(s, data.items, addr)

(***************************************************************************)
(* PongGame: the tick and the local input                                  *)
(***************************************************************************)
MyPos(s) == IF s.me = "player1" THEN s.pad1 ELSE s.pad2

\* A paddle update sent on every tick, moved or not.
send_paddle_update_always(s) ==
    IF s.me # "none"
    THEN send_game_data([s EXCEPT !.last_sent_pos = MyPos(s)], Msg("pad_pos", MyPos(s)))
    ELSE s

_send_paddle_update(s) ==
    IF s.me # "none" /\ MyPos(s) # s.last_sent_pos
    THEN send_game_data([s EXCEPT !.last_sent_pos = MyPos(s)], Msg("pad_pos", MyPos(s)))
    ELSE s

\* bounce_ball reverses the ball when collide_widget holds; whether it holds
\* is the geometry's answer, hit1 for player1 and hit2 for player2.
\* A bounce that both sides report to the opponent.
check_paddle_collisions_both(s, hit1, hit2) ==
    LET s1 == IF hit1 THEN [s EXCEPT !.ball_vx = -@] ELSE s
        s2 == IF hit2 THEN [s1 EXCEPT !.ball_vx = -@] ELSE s1
    IN  IF hit1 \/ hit2
        THEN send_game_data(s2, Msg("ball_vel", s2.ball_vx) \o Msg("ball_pos", s2.ball_x))
        ELSE s2

_check_paddle_collisions(s, hit1, hit2) ==
    LET s1 == IF hit1 THEN [s EXCEPT !.ball_vx = -@] ELSE s
        s2 == IF hit2 THEN [s1 EXCEPT !.ball_vx = -@] ELSE s1
    IN  IF (hit1 \/ hit2) /\ s2.game_owner
        THEN send_game_data(s2, Msg("ball_vel", s2.ball_vx) \o Msg("ball_pos", s2.ball_x))
        ELSE s2

_check_scoring(s) ==
    LET a == IF s.ball_x < 0
             THEN LET s1 == IF s.game_owner
                            THEN send_game_data([s EXCEPT !.score2 = @ + 1],
                                                Msg("score_pl2", s.score2 + 1))
                            ELSE s
                  IN  serve_ball(check_player_win(s1, "player2"), 1)
             ELSE s
    IN  IF a.ball_x > FieldW
        THEN LET a1 == IF a.game_owner
                       THEN send_game_data([a EXCEPT !.score1 = @ + 1],
                                           Msg("score_pl1", a.score1 + 1))
                       ELSE a
             IN  serve_ball(check_player_win(a1, "player1"), -1)
        ELSE a

\* A game loop that runs while paused, once synchronized.
update_while_paused(s, hit1, hit2) ==
    IF ~s.is_synchronized THEN s
    ELSE LET s1 == [s EXCEPT !.ball_x = @ + s.ball_vx]
             s2 == _check_paddle_collisions(s1, hit1, hit2)
             s3 == _check_scoring(s2)
         IN  IF s3.is_connected THEN _send_paddle_update(s3) ELSE s3

update(s, hit1, hit2) ==
    IF s.pause \/ ~s.is_synchronized THEN s
    ELSE LET s1 == [s EXCEPT !.ball_x = @ + s.ball_vx]
             s2 == _check_paddle_collisions(s1, hit1, hit2)
             s3 == _check_scoring(s2)
         IN  IF s3.is_connected THEN _send_paddle_update(s3) ELSE s3

switch_pause_play(s) ==
    IF ~s.is_synchronized THEN s
    ELSE LET s1 == [s EXCEPT !.pause = ~@]
         IN  IF s1.is_connected THEN send_game_data(s1, Msg("pause", s1.pause)) ELSE s1

\* move_paddle: the paddle follows goal_pos and stays inside the window.
Clamp(y) == IF y > MaxPadY THEN MaxPadY ELSE IF y < 0 THEN 0 ELSE y

move_paddle(s, goal_pos) ==
    IF s.me = "player1" THEN [s EXCEPT !.pad1[2] = Clamp(goal_pos)]
    ELSE [s EXCEPT !.pad2[2] = Clamp(goal_pos)]

on_keyboard_down(s, keycode) ==
    LET s1 == IF keycode = "up" THEN move_paddle(s, MyPos(s)[2] + 1)
              ELSE IF keycode = "down" THEN move_paddle(s, MyPos(s)[2] - 1)
              ELSE s
        s2 == IF keycode = "p" /\ s1.is_synchronized THEN switch_pause_play(s1) ELSE s1
    IN  IF keycode = "r" /\ s2.game_over
        THEN LET s3 == serve_ball([s2 EXCEPT !.score1 = 0, !.score2 = 0,
                                             !.game_over = FALSE, !.pause = FALSE,
                                             !.end_game_text = ""], 1)
             IN  IF s3.is_connected THEN send_game_data(s3, Msg("reset_scores", TRUE)) ELSE s3
        ELSE s2

on_press_pause_play(s) ==
    IF ~s.is_synchronized /\ ~s.game_over THEN s
    ELSE LET s1 == [s EXCEPT !.pause = ~@]
             reset == s1.score1 >= POINTS_TO_WIN \/ s1.score2 >= POINTS_TO_WIN
             s2 == IF reset
                   THEN [s1 EXCEPT !.score1 = 0, !.score2 = 0, !.game_over = FALSE,
                                   !.end_game_text = ""]
                   ELSE s1
             msg == IF reset THEN Msg("pause", s1.pause) \o Msg("reset_scores", TRUE)
                    ELSE Msg("pause", s1.pause)
         IN  IF s2.is_connected THEN send_game_data(s2, msg) ELSE s2

\* _on_window_close: stop_thread (the close notice, cleanup), cleanup again.
stop_thread(s) ==
    LET s1 == IF s.is_connected /\ s.addr_opponent # NoAddr
              THEN send_game_data(s, Msg("game_close", TRUE))
              ELSE s
    IN  stop_search_for_opponent(s1)

_on_window_close(s) == [stop_search_for_opponent(stop_thread(s)) EXCEPT !.alive = FALSE]

(***************************************************************************)
(* The multicast listeners: every started listener whose recv_signal is    *)
(* still connected calls the handler for a received announcement.          *)
(***************************************************************************)
RECURSIVE RunOrphans(_, _, _)
RunOrphans(s, msg, n) ==
    IF n = 0 THEN s ELSE RunOrphans(_handle_multicast_message(s, msg), msg, n - 1)

recv_signal(s, msg, order) ==
    IF order = "current_first"
    THEN LET s1 == IF s.listener = "active" THEN _handle_multicast_message(s, msg) ELSE s
         IN  RunOrphans(s1, msg, s.orphans)
    ELSE LET s1 == RunOrphans(s, msg, s.orphans)
         IN  IF s1.listener = "active" THEN _handle_multicast_message(s1, msg) ELSE s1

Listening(s) == s.listener = "active" \/ s.orphans > 0
Orders(s) == IF s.listener = "active" /\ s.orphans > 0
             THEN {"current_first", "orphans_first"} ELSE {"current_first"}

(***************************************************************************)
(* The network                                                             *)
(***************************************************************************)
RECURSIVE Route(_, _, _)
Route(ib, out, src) ==
    IF out = <<>> THEN ib
    ELSE LET m == Head(out)
             ib1 == IF \E q \in Peers : Addr(q) = m.to /\ proc[q].alive
                    THEN [ib EXCEPT ![PeerAt(m.to)] =
                                Append(@, [src |-> src, data |-> m.data])]
                    ELSE ib
         IN  Route(ib1, Tail(out), src)

\* Process p has run a handler to state s; ib and a are the inboxes and the
\* announcements on their way after the handler's own receive.
Finish(p, s, ib, a) ==
    LET ib1 == Route(ib, s.out, Addr(p))
    IN  /\ \A q \in Peers : Len(ib1[q]) <= MaxInbox
        /\ s.score1 <= POINTS_TO_WIN + 1
        /\ s.score2 <= POINTS_TO_WIN + 1
        /\ proc' = [proc EXCEPT ![p] = [s EXCEPT !.out = <<>>, !.exc = FALSE]]
        /\ inbox' = ib1
        /\ air' = LET a1 == IF proc[p].publishing /\ ~s.publishing
                            THEN a \cup {<<p, Other(p)>>} ELSE a
                  IN  {e \in a1 : Listening(IF e[2] = p THEN s ELSE proc[e[2]])}
        /\ sent' = s.out

\* What the third process may send.
ForeignRecord(name, enc_key, key, sign_key, type) ==
    [ addr |-> ForeignAddr, name |-> name, enc_key |-> enc_key, key |-> key,
      sign_key |-> sign_key, type |-> type ]

ForeignRecords(p) ==
    { ForeignRecord(ForeignName, "encF", "", "signF", "pong"),
      ForeignRecord(ForeignName, "", "encF", "signF", "pong"),
      ForeignRecord(ForeignName, "encF", "", "", "pong"),
      ForeignRecord(ForeignName, "", "", "signF", "pong"),
      ForeignRecord(ForeignName, "encF", "", "signF", "chat"),
      ForeignRecord(proc[p].pl_name, "encF", "", "signF", "pong") }

ForeignInit(addr, enc_key, name) ==
    Msg("init", [ addr |-> addr, enc_key |-> enc_key, key |-> "",
                  sign_key |-> IF enc_key = "" THEN "" ELSE "signF", name |-> name ])

ForeignPayloads ==
    { json_dumps(ForeignInit(ForeignAddr, "encF", ForeignName)),
      json_dumps(ForeignInit(NoAddr, "", ForeignName)),
      json_dumps(Msg("game_close", TRUE)),
      json_dumps(Msg("score_pl1", POINTS_TO_WIN - 1)),
      json_dumps(Msg("score_pl2", POINTS_TO_WIN - 1)) }

(***************************************************************************)
(* Actions                                                                 *)
(***************************************************************************)
Init ==
    \E a, b \in NameSamples :
        /\ a < b
        /\ proc = [p \in Peers |-> InitProc(p, IF p = 1 THEN a ELSE b)]
        /\ inbox = [p \in Peers |-> <<>>]
        /\ air = {}
        /\ sent = <<>>
        /\ foreign = 0
        /\ lost = {}
        /\ goals = 0

\* p's listeners receive the announcement q publishes (q = p: its own).
AnnounceRecv(p, q) ==
    /\ proc[p].alive /\ Listening(proc[p])
    /\ (proc[q].alive /\ proc[q].publishing) \/ <<q, p>> \in air
    /\ \E order \in Orders(proc[p]) :
           Finish(p, recv_signal(proc[p], mc_msg(q), order), inbox, air \ {<<q, p>>})
    /\ UNCHANGED <<foreign, lost, goals>>

ForeignAnnounceOf(p, rec) ==
    /\ proc[p].alive /\ Listening(proc[p])
    /\ foreign < MaxForeign
    /\ \E order \in Orders(proc[p]) :
           Finish(p, recv_signal(proc[p], rec, order), inbox, air)
    /\ foreign' = foreign + 1
    /\ UNCHANGED <<lost, goals>>

ForeignAnnounce(p) == \E rec \in ForeignRecords(p) : ForeignAnnounceOf(p, rec)

ForeignUdpOf(p, data) ==
    /\ proc[p].alive
    /\ foreign < MaxForeign
    /\ Finish(p, _handle_udp_data(proc[p], data, ForeignAddr), inbox, air)
    /\ foreign' = foreign + 1
    /\ UNCHANGED <<lost, goals>>

ForeignUdp(p) == \E data \in ForeignPayloads : ForeignUdpOf(p, data)

\* udp_recv_data: p receives the next datagram sent to it.
Deliver(p) ==
    /\ proc[p].alive
    /\ inbox[p] # <<>>
    /\ Finish(p, _handle_udp_data(proc[p], Head(inbox[p]).data, Head(inbox[p]).src),
              [inbox EXCEPT ![p] = Tail(@)], air)
    /\ UNCHANGED <<foreign, lost, goals>>

\* The network drops the next datagram to p.
Lose(p) ==
    /\ inbox[p] # <<>>
    /\ Cardinality(lost) < MaxLost
    /\ LET key == Head(inbox[p]).data.items[1].k
       IN  /\ <<p, key>> \notin lost
           /\ lost' = lost \cup {<<p, key>>}
    /\ inbox' = [inbox EXCEPT ![p] = Tail(@)]
    /\ sent' = <<>>
    /\ UNCHANGED <<proc, air, foreign, goals>>

\* One period of a scheduled Clock.schedule_interval(self.update); at most
\* cap points are scored on the field.
Points(s) == s.score1 + s.score2

Tick(p, cap) ==
    /\ proc[p].alive
    /\ proc[p].drivers > 0
    /\ Len(inbox[Other(p)]) < MaxBacklog
    /\ \E hit1, hit2 \in BOOLEAN :
           /\ hit1 => proc[p].ball_x + proc[p].ball_vx = 0
           /\ hit2 => proc[p].ball_x + proc[p].ball_vx = FieldW
           /\ ~(hit1 /\ hit2)
           /\ LET s == update(proc[p], hit1, hit2)
              IN  /\ Finish(p, s, inbox, air)
                  /\ goals' = IF Points(s) # Points(proc[p]) THEN goals + 1 ELSE goals
                  /\ goals' <= cap
    /\ UNCHANGED <<foreign, lost>>

\* The keyboard is bound in init_game_connection.
KeyDown(p, keycode) ==
    /\ proc[p].alive
    /\ proc[p].drivers > 0
    /\ Len(inbox[Other(p)]) < MaxBacklog
    /\ Finish(p, on_keyboard_down(proc[p], keycode), inbox, air)
    /\ UNCHANGED <<foreign, lost, goals>>

PressPausePlay(p) ==
    /\ proc[p].alive
    /\ Len(inbox[Other(p)]) < MaxBacklog
    /\ Finish(p, on_press_pause_play(proc[p]), inbox, air)
    /\ UNCHANGED <<foreign, lost, goals>>

\* The text reset complete_synchronization schedules 1.5 s after "READY!".
ReadyTimer(p) ==
    /\ proc[p].alive
    /\ proc[p].ready_timers > 0
    /\ Finish(p, [proc[p] EXCEPT !.ready_timers = @ - 1, !.end_game_text = ""], inbox, air)
    /\ UNCHANGED <<foreign, lost, goals>>

\* The transport of p starts or stops failing its sends.
TransportFault(p) ==
    /\ proc[p].alive
    /\ proc' = [proc EXCEPT ![p].udp_down = ~@]
    /\ sent' = <<>>
    /\ UNCHANGED <<inbox, air, foreign, lost, goals>>

WindowClose(p) ==
    /\ proc[p].alive
    /\ Finish(p, _on_window_close(proc[p]), [inbox EXCEPT ![p] = <<>>], air)
    /\ UNCHANGED <<foreign, lost, goals>>

(***************************************************************************)
(* Specifications                                                          *)
(***************************************************************************)
Discover == \E p, q \in Peers : AnnounceRecv(p, q)
Receive == \E p \in Peers : Deliver(p)
Intrude == \E p \in Peers : ForeignAnnounce(p) \/ ForeignUdp(p)
Play == \E p \in Peers : Tick(p, MaxGoals)
PlayOut == \E p \in Peers : Tick(p, 2 * POINTS_TO_WIN)
Keys == \E p \in Peers : \E k \in {"p", "r"} : KeyDown(p, k)
Button == \E p \in Peers : PressPausePlay(p)
Close == \E p \in Peers : WindowClose(p)
Drop == \E p \in Peers : Lose(p)

Timer == \E p \in Peers : ReadyTimer(p)

\* Discovery, sessions and their end, with a third process on the LAN.
Next == Discover \/ Receive \/ Intrude \/ Close
Spec == Init /\ [][Next]_vars

\* Two processes playing whole games over a lossless network.
NextGame == Discover \/ Receive \/ PlayOut \/ Timer
SpecGame == Init /\ [][NextGame]_vars

\* Two processes with their players at the keyboard, in a bounded game.
NextPlay == Discover \/ Receive \/ Play \/ Keys \/ Button \/ Timer
SpecPlay == Init /\ [][NextPlay]_vars

\* Discovery and the readiness handshake over a lossless network. The
\* publisher announces periodically and every process has its own receive
\* thread, so an announcement or a datagram that stays receivable is received.
NextLive == Discover \/ Receive \/ Play \/ Timer
SpecLive ==
    /\ Init /\ [][NextLive]_vars
    /\ WF_vars(Discover)
    /\ \A p \in Peers : WF_vars(Deliver(p))

\* The handshake over a network that drops datagrams.
NextLoss == Discover \/ Receive \/ Drop
SpecLoss == Init /\ [][NextLoss]_vars

(***************************************************************************)
(* Properties                                                              *)
(***************************************************************************)
InSession(p, q) ==
    /\ proc[p].alive /\ proc[q].alive
    /\ proc[p].is_connected /\ proc[q].is_connected
    /\ proc[p].enemy_name = proc[q].pl_name
    /\ proc[q].enemy_name = proc[p].pl_name

\* C1: two processes with distinct names that have established a session
\* with each other (each holds the other's name as enemy_name) have decided
\* complementary roles: game_owner is true on exactly one of them.
C1_ExactlyOneOwner ==
    \A p \in Peers :
        (InSession(p, Other(p)) /\ proc[p].pl_name # proc[Other(p)].pl_name)
            => proc[p].game_owner # proc[Other(p)].game_owner

\* A session one side entered by on_opponent_found and the other by
\* on_game_init, the first named being the owner.
C1_Witness ==
    /\ InSession(1, 2)
    /\ proc[1].sym_init /\ ~proc[2].sym_init
    /\ proc[2].game_owner /\ ~proc[1].game_owner

Synced(p) ==
    /\ proc[p].is_synchronized
    /\ proc[p].sync_state = "synchronized"
    /\ ~proc[p].pause

KeysInstalled(s, a) == s.peer_keys[a] # <<"", "">>

\* C3: an address is a registered transport peer only with its keys
\* installed, and in every call of update_opponent_ip the add_peer of an
\* address comes after the update_peer_keys of that address.
C3_KeysBeforePeer ==
    \A p \in Peers :
        /\ \A a \in proc[p].udp_peers : KeysInstalled(proc[p], a)
        /\ \A i \in 1..Len(proc[p].calls) :
               proc[p].calls[i][1] = "add_peer"
                   => \E j \in 1..(i - 1) :
                          proc[p].calls[j] = <<"update_peer_keys", proc[p].calls[i][2]>>

Searching(p) == ~proc[p].is_connected /\ proc[p].sync_state = "waiting"

NoKeyRecords(p) == {rec \in ForeignRecords(p) : rec.enc_key = "" /\ rec.key = ""}
NoKeyInit == json_dumps(ForeignInit(NoAddr, "", ForeignName))

StaysSearching(p) ==
    /\ proc'[p].addr_opponent = proc[p].addr_opponent
    /\ proc'[p].udp_peers = proc[p].udp_peers
    /\ Searching(p)'
    /\ sent' = <<>>

\* C4: a searching process that receives an announcement or an init message
\* without an encryption key installs no opponent, sends nothing, and stays
\* searching (not connected, sync_state "waiting").
C4_NoKeyNoHandshake ==
    [][\A p \in Peers :
          (/\ Searching(p)
           /\ \/ \E rec \in NoKeyRecords(p) : ForeignAnnounceOf(p, rec)
              \/ ForeignUdpOf(p, NoKeyInit))
              => StaysSearching(p)]_vars

Running(p) ==
    /\ proc[p].is_connected /\ proc[p].is_synchronized
    /\ ~proc[p].pause /\ ~proc[p].game_over

GameClose == json_dumps(Msg("game_close", TRUE))
Receives(p, data) == inbox[p] # <<>> /\ Head(inbox[p]).data = data /\ Deliver(p)

\* C5: a running process that receives game_close is searching again
\* afterwards: not connected, not synchronized, sync_state "waiting", both
\* scores 0, discovery restarted, and no active opponent address.
C5_CloseResets ==
    [][\A p \in Peers :
          (Running(p) /\ Receives(p, GameClose))
              => /\ Searching(p)'
                 /\ ~proc'[p].is_synchronized
                 /\ proc'[p].score1 = 0 /\ proc'[p].score2 = 0
                 /\ proc'[p].listener = "active" /\ proc'[p].publishing
                 /\ proc'[p].addr_opponent = NoAddr]_vars

Accepted(p, msg) ==
    /\ msg.name # proc[p].pl_name
    /\ msg.type = "pong"
    /\ msg.enc_key # "" \/ msg.key # ""

InitsTo(out, a) ==
    Cardinality({i \in 1..Len(out) : out[i].to = a /\ out[i].data.items[1].k = "init"})

OneInitOneFound(p, msg) ==
    /\ InitsTo(sent', msg.addr) = 1
    /\ proc'[p].drivers = proc[p].drivers + 1

\* C10: a process that receives a valid announcement while listening sends
\* exactly one init message to the announced address and runs
\* on_opponent_found (hence init_game_connection) exactly once.
C10_OneInitPerAnnouncement ==
    [][\A p \in Peers :
          /\ \A q \in Peers :
                 (Accepted(p, mc_msg(q)) /\ AnnounceRecv(p, q))
                     => OneInitOneFound(p, mc_msg(q))
          /\ \A rec \in ForeignRecords(p) :
                 (Accepted(p, rec) /\ ForeignAnnounceOf(p, rec))
                     => OneInitOneFound(p, rec)]_vars

HandshakeKeys == {"sync_ready", "sync_ack"}
HandshakeLost(p) == {k \in HandshakeKeys : <<p, k>> \in lost}
OnlyHandshakeLost == \A e \in lost : e[2] \in HandshakeKeys
Quiescent == \A p \in Peers : inbox[p] = <<>>

Starved(p) ==
    /\ <<p, "sync_ready">> \in lost
    /\ <<p, "sync_ack">> \in lost \/ <<Other(p), "sync_ready">> \in lost

C6_StallWitness ==
    /\ InSession(1, 2) /\ Quiescent
    /\ HandshakeLost(2) = HandshakeKeys /\ Starved(2)
    /\ proc[2].sync_state = "ready" /\ Synced(1)

Players == {"player1", "player2"}
ScoreKey(player) == IF player = "player1" THEN "score_pl1" ELSE "score_pl2"
ScoreMsg(player, v) == json_dumps(Msg(ScoreKey(player), v))
GameOverMsg(winner) == json_dumps(Msg("game_over", TRUE) \o Msg("winner", winner))

\* The next datagram to p holds the one key given.
HeadIs(p, key) ==
    /\ inbox[p] # <<>>
    /\ Head(inbox[p]).data.json
    /\ Len(Head(inbox[p]).data.items) = 1
    /\ Head(inbox[p]).data.items[1].k = key
HeadValue(p) == Head(inbox[p]).data.items[1].v

\* The tick of p on which its local scoring gives player a point.
Scored(p, player) ==
    /\ Score(proc'[p], player) = Score(proc[p], player) + 1
    /\ Tick(p, 2 * POINTS_TO_WIN)

Decided(p, player, v) ==
    /\ Score(proc'[p], player) = v
    /\ proc'[p].game_over <=> (proc[p].game_over \/ v >= POINTS_TO_WIN)
    /\ v >= POINTS_TO_WIN => proc'[p].pause
    /\ v < POINTS_TO_WIN => proc'[p].pause = proc[p].pause

\* C7: whenever a score is set, by a received score message or by local
\* scoring, game_over (and pause) is set exactly when the new score has
\* reached POINTS_TO_WIN; a lower score leaves game_over and pause as they
\* were.
C7_GameOverAtThreshold ==
    [][\A p \in Peers : \A player \in Players :
          /\ (HeadIs(p, ScoreKey(player)) /\ Deliver(p))
                 => Decided(p, player, HeadValue(p))
          /\ Scored(p, player) => Decided(p, player, Score(proc[p], player) + 1)]_vars

\* A process whose player1 won with POINTS_TO_WIN points right after
\* player2 had stayed one point below without ending the game.
C7_Witness ==
    \E p \in Peers :
        /\ proc[p].score1 = POINTS_TO_WIN
        /\ proc[p].score2 = POINTS_TO_WIN - 1
        /\ proc[p].game_over /\ proc[p].pause

Outcome(s, player) == IF player = s.me THEN "You won!!!" ELSE "You lost"

\* C8: when the owner's local scoring brings a player to POINTS_TO_WIN,
\* and when the guest receives that score message, each reaches game_over
\* showing the win if the player is its own and the loss otherwise, the
\* player being the own one of exactly one of the two; a game_over message
\* delivered to the guest afterwards shows the same outcome.
C8_SameWinner ==
    [][\A p \in Peers : \A player \in Players :
          /\ (/\ proc[p].game_owner
              /\ Score(proc[p], player) + 1 = POINTS_TO_WIN
              /\ Scored(p, player))
                 => /\ proc'[p].game_over
                    /\ proc'[p].end_game_text = Outcome(proc[p], player)
          /\ (/\ ~proc[p].game_owner
              /\ InSession(p, Other(p))
              /\ Receives(p, ScoreMsg(player, POINTS_TO_WIN)))
                 => /\ proc'[p].game_over
                    /\ proc'[p].end_game_text = Outcome(proc[p], player)
                    /\ Outcome(proc[p], player) # Outcome(proc[Other(p)], player)
          /\ (/\ ~proc[p].game_owner
              /\ InSession(p, Other(p))
              /\ Receives(p, GameOverMsg(player)))
                 => /\ proc[p].game_over /\ proc'[p].game_over
                    /\ proc'[p].end_game_text = Outcome(proc[p], player)]_vars

\* Owner and guest have both ended the game, the explicit game_over message
\* included, one showing the win and the other the loss.
C8_Witness ==
    /\ InSession(1, 2) /\ Quiescent
    /\ \A p \in Peers : proc[p].game_over
    /\ \E p \in Peers :
           /\ proc[p].game_owner /\ ~proc[Other(p)].game_owner
           /\ proc[p].end_game_text = "You won!!!"
           /\ proc[Other(p)].end_game_text = "You lost"

NotRunning(p) == proc[p].pause \/ ~proc[p].is_synchronized

\* C9: a tick of a process that is paused or not synchronized changes
\* nothing: the ball, the scores, game_over and every other field of both
\* processes stay as they are, and no datagram is sent.
C9_TickWhileNotRunning ==
    [][\A p \in Peers :
          (NotRunning(p) /\ Tick(p, MaxGoals))
              => /\ proc' = proc
                 /\ inbox' = inbox
                 /\ sent' = <<>>]_vars

\* A synchronized process paused in mid-game whose driver is scheduled and
\* whose ball would move on a tick.
C9_Witness ==
    \E p \in Peers :
        /\ proc[p].alive /\ proc[p].drivers > 0
        /\ proc[p].is_synchronized /\ proc[p].pause /\ ~proc[p].game_over
        /\ proc[p].ball_vx # 0
        /\ Len(inbox[Other(p)]) < MaxBacklog

Ignored(p, msg) == msg.name = proc[p].pl_name \/ msg.type # "pong"
NothingHappens == proc' = proc /\ inbox' = inbox /\ sent' = <<>>

\* C11: an announcement carrying the receiver's own name, or a session type
\* other than the receiver's, changes nothing: the opponent address, the
\* transport's peers and every other field stay as they are, no datagram is
\* sent and no event is dispatched.
C11_SelfEchoAndOtherTypeIgnored ==
    [][\A p \in Peers :
          /\ \A q \in Peers :
                 (Ignored(p, mc_msg(q)) /\ AnnounceRecv(p, q)) => NothingHappens
          /\ \A rec \in ForeignRecords(p) :
                 (Ignored(p, rec) /\ ForeignAnnounceOf(p, rec)) => NothingHappens]_vars

\* The third process has announced itself MaxForeign times and both
\* processes are still searching, with no opponent and no transport peer.
C11_Witness ==
    /\ foreign = MaxForeign
    /\ \A p \in Peers :
           /\ Searching(p) /\ proc[p].listener = "active" /\ proc[p].orphans = 0
           /\ proc[p].addr_opponent = NoAddr /\ proc[p].udp_peers = {}
           /\ proc[p].end_game_text = "Searching for opponent..."
           /\ proc[p].score1 = 0 /\ proc[p].score2 = 0

\* The started listeners of a process whose recv_signal is connected to the
\* announcement handler.
ActiveListeners(s) == (IF s.listener = "active" THEN 1 ELSE 0) + s.orphans

\* C12: however often discovery is started and stopped, a process never has
\* more than one active listener connected to the announcement handler, and
\* a process whose discovery is stopped has none.
C12_AtMostOneListener ==
    \A p \in Peers :
        /\ ActiveListeners(proc[p]) <= 1
        /\ ~proc[p].publishing /\ proc[p].listener # "active"
               => ActiveListeners(proc[p]) = 0

\* The registry of p is as a call update_opponent_ip(addr, enc_key,
\* sign_key) leaves it.
AfterCall(p, addr, enc_key, sign_key) ==
    /\ proc[p].addr_opponent = addr
    /\ addr \in proc[p].udp_peers
    /\ (enc_key # "" /\ sign_key # "") => proc[p].peer_keys[addr] = <<enc_key, sign_key>>

RegistryUnchanged(p) ==
    /\ proc'[p].addr_opponent = proc[p].addr_opponent
    /\ proc'[p].peer_keys = proc[p].peer_keys
    /\ proc'[p].udp_peers = proc[p].udp_peers
    /\ \A i \in 1..Len(proc'[p].calls) : proc'[p].calls[i][1] # "add_peer"

ForeignInitValid == ForeignInit(ForeignAddr, "encF", ForeignName)

\* C13: an init message that makes update_opponent_ip run again with the
\* address and keys of the call before leaves the opponent address, the
\* installed keys and the registered peers as they were and does not call
\* add_peer.
C13_SecondCallChangesNothing ==
    [][\A p \in Peers :
          /\ (/\ HeadIs(p, "init")
              /\ HeadValue(p).enc_key # ""
              /\ AfterCall(p, HeadValue(p).addr, HeadValue(p).enc_key, HeadValue(p).sign_key)
              /\ Deliver(p))
                 => RegistryUnchanged(p)
          /\ (/\ AfterCall(p, ForeignAddr, "encF", "signF")
              /\ ForeignUdpOf(p, json_dumps(ForeignInitValid)))
                 => RegistryUnchanged(p)]_vars

\* Two processes that found each other by announcement and have each
\* received the other's init: update_opponent_ip has run twice on both with
\* the same address and keys, the second call installing the keys only.
C13_Witness ==
    /\ InSession(1, 2) /\ Quiescent
    /\ \A p \in Peers :
           /\ ~proc[p].sym_init
           /\ proc[p].calls = <<<<"update_peer_keys", Addr(Other(p))>>>>
           /\ proc[p].udp_peers = {Addr(Other(p))}

(***************************************************************************)
(* Payloads on the wire that the two processes do not send themselves in   *)
(* this order or at this time: undecodable bytes, bundles of several keys, *)
(* and status messages of another session.                                 *)
(***************************************************************************)
Bundles ==
    { ForeignInitValid \o Msg("score_pl1", 3),
      Msg("score_pl1", 3) \o ForeignInitValid,
      Msg("ping", 1) \o Msg("pause", TRUE) }

WirePayloads ==
    {NotJson, json_dumps(Msg("reset_scores", TRUE))}
        \cup {GameOverMsg(w) : w \in Players}
        \cup {json_dumps(b) : b \in Bundles}

Wire == \E p \in Peers : \E data \in WirePayloads : ForeignUdpOf(p, data)

NextWire == Discover \/ Receive \/ Wire
SpecWire == Init /\ [][NextWire]_vars

\* Every key of a payload handled as a payload of its own, in order.
RECURSIVE OneByOne(_, _, _)
OneByOne(s, items, addr) ==
    IF items = <<>> THEN s
    ELSE OneByOne(_handle_udp_data([s EXCEPT !.exc = FALSE],
                                   json_dumps(<<Head(items)>>), addr),
                  Tail(items), addr)

AsOneByOne(p, items, addr) ==
    /\ proc'[p] = [OneByOne(proc[p], items, addr) EXCEPT !.out = <<>>, !.exc = FALSE]
    /\ sent' = OneByOne(proc[p], items, addr).out

\* C14: a payload bundling several keys is handled as if each key had come
\* in a payload of its own: every recognized key has its event dispatched
\* and its receiver action done, whatever the other keys are (an init or an
\* unknown key among them) and in whatever order they come.
C14_KeysDispatchedIndependently ==
    [][\A p \in Peers :
          /\ \A b \in Bundles :
                 ForeignUdpOf(p, json_dumps(b)) => AsOneByOne(p, b, ForeignAddr)
          /\ (/\ inbox[p] # <<>>
              /\ Len(Head(inbox[p]).data.items) > 1
              /\ Deliver(p))
                 => AsOneByOne(p, Head(inbox[p]).data.items, Head(inbox[p]).src)]_vars

\* C15: a process with a role that receives a game_over message tagged with
\* a winner sets game_over and shows the win exactly when the tag is its
\* own role, the loss otherwise, for both tags and both roles.
C15_OutcomeByWinnerTag ==
    [][\A p \in Peers : \A w \in Players :
          (/\ proc[p].me \in Players
           /\ Receives(p, GameOverMsg(w)) \/ ForeignUdpOf(p, GameOverMsg(w)))
              => /\ proc'[p].game_over
                 /\ proc'[p].end_game_text = Outcome(proc[p], w)]_vars

\* C18: a received payload that cannot be decoded changes nothing: no event
\* is dispatched, no field of either process changes, nothing is sent, and
\* the handler returns without raising.
C18_UndecodableDropped ==
    [][\A p \in Peers :
          ForeignUdpOf(p, NotJson)
              => /\ NothingHappens
                 /\ ~_handle_udp_data(proc[p], NotJson, ForeignAddr).exc]_vars

\* Two synchronized processes in mid-session, as the handshake left them,
\* after MaxForeign datagrams of the third process.
C18_Witness ==
    /\ foreign = MaxForeign
    /\ InSession(1, 2) /\ Quiescent
    /\ \A p \in Peers :
           /\ Synced(p) /\ ~proc[p].game_over
           /\ proc[p].addr_opponent = Addr(Other(p))
           /\ proc[p].end_game_text = "READY!"
           /\ proc[p].score1 = 0 /\ proc[p].score2 = 0

\* C20: a process that is not synchronized becomes synchronized only by
\* receiving a sync_ready or a sync_ack while its sync_state is "ready"; no
\* other message (reset_scores, pause, score, game data) makes it so.
C20_SynchronizedOnlyByHandshake ==
    [][\A p \in Peers :
          (~proc[p].is_synchronized /\ proc'[p].is_synchronized)
              => /\ proc[p].sync_state = "ready"
                 /\ HeadIs(p, "sync_ready") \/ HeadIs(p, "sync_ack")
                 /\ Deliver(p)]_vars

\* Two processes moving their paddles in a bounded game.
Steer == \E p \in Peers : \E k \in {"up", "down"} : KeyDown(p, k)
NextPaddle == Discover \/ Receive \/ Play \/ Steer
SpecPaddle == Init /\ [][NextPaddle]_vars

\* The pad_pos datagrams p handed to the transport in the last step (all its
\* datagrams go to the other process).
PadPosSent(p, out) ==
    {i \in 1..Len(out) : out[i].to = Addr(Other(p)) /\ out[i].data.items[1].k = "pad_pos"}

\* C17: no step of a process sends more than one pad_pos; a pad_pos carries
\* the paddle's position, which differs from the position last sent, and
\* becomes the position last sent; and the position last sent changes only
\* by sending it, so two pad_pos in a row never carry the same position.
C17_PadPosOnlyWhenMoved ==
    [][\A p \in Peers :
          LET pads == PadPosSent(p, sent')
          IN  /\ Cardinality(pads) <= 1
              /\ \A i \in pads :
                     /\ sent'[i].data.items[1].v = MyPos(proc'[p])
                     /\ sent'[i].data.items[1].v # proc[p].last_sent_pos
                     /\ proc'[p].last_sent_pos = sent'[i].data.items[1].v
              /\ proc'[p].last_sent_pos # proc[p].last_sent_pos => pads # {}]_vars

\* The guest has just sent the position of its paddle moved to the top.
C17_Witness ==
    \E p \in Peers :
        /\ PadPosSent(p, sent) # {}
        /\ MyPos(proc[p])[2] = MaxPadY
        /\ proc[p].last_sent_pos = MyPos(proc[p])
        /\ proc[p].me = "player2"

AuthoritativeKeys == {"ball_vel", "ball_pos", "score_pl1", "score_pl2", "game_over"}

Authoritative(data) ==
    \E j \in 1..Len(data.items) : data.items[j].k \in AuthoritativeKeys

\* C16: every datagram carrying ball_vel, ball_pos, score_pl1, score_pl2 or
\* game_over is sent by a process whose game_owner is true, and a score of
\* a process whose game_owner is false grows only to the value of a score
\* message it receives.
C16_OnlyOwnerSendsState ==
    [][\A p \in Peers :
          /\ \A i \in 1..Len(sent') :
                 (sent'[i].to = Addr(Other(p)) /\ Authoritative(sent'[i].data))
                     => proc[p].game_owner /\ proc'[p].game_owner
          /\ \A player \in Players :
                 (/\ ~proc[p].game_owner
                  /\ Score(proc'[p], player) > Score(proc[p], player))
                     => /\ HeadIs(p, ScoreKey(player))
                        /\ HeadValue(p) = Score(proc'[p], player)
                        /\ Deliver(p)]_vars

\* A whole game the guest's player has won: the guest shows the win, and
\* every score it holds came from the owner.
C16_Witness ==
    \E p \in Peers :
        /\ InSession(p, Other(p)) /\ Quiescent
        /\ ~proc[p].game_owner /\ proc[Other(p)].game_owner
        /\ proc[p].game_over /\ proc[p].end_game_text = "You won!!!"
        /\ Score(proc[p], proc[p].me) = POINTS_TO_WIN
        /\ proc[p].score1 = proc[Other(p)].score1
        /\ proc[p].score2 = proc[Other(p)].score2

\* Two processes at their pause buttons over transports whose sends fail
\* at times.
Fault == \E p \in Peers : TransportFault(p)
NextFault == Discover \/ Receive \/ Button \/ Fault
SpecFault == Init /\ [][NextFault]_vars

\* The state a handler leaves p in when its sends fail: the state h it
\* reaches with a working transport, nothing handed to the transport.
Unsent(h) == [h EXCEPT !.out = <<>>, !.exc = FALSE, !.udp_down = TRUE]
Working(s) == [s EXCEPT !.udp_down = FALSE]

\* C19: while the transport's send fails, every message a handler sends is
\* dropped and never sent later, the handler runs on as after a successful
\* send (nothing is raised to it), and the opponent address and the session
\* state end up as they would with a working transport.
C19_FailedSendDropped ==
    [][\A p \in Peers :
          /\ (proc[p].udp_down /\ PressPausePlay(p))
                 => /\ sent' = <<>> /\ inbox' = inbox
                    /\ proc'[p] = Unsent(on_press_pause_play(Working(proc[p])))
          /\ (proc[p].udp_down /\ Deliver(p))
                 => /\ sent' = <<>>
                    /\ inbox' = [inbox EXCEPT ![p] = Tail(@)]
                    /\ proc'[p] = Unsent(_handle_udp_data(Working(proc[p]),
                                             Head(inbox[p]).data, Head(inbox[p]).src))]_vars

\* A synchronized process whose send of its pause message failed: it is
\* paused, still connected to its opponent, and the opponent plays on.
C19_Witness ==
    \E p \in Peers :
        /\ InSession(p, Other(p)) /\ Quiescent
        /\ proc[p].udp_down /\ ~proc[Other(p)].udp_down
        /\ proc[p].is_synchronized /\ proc[p].pause
        /\ proc[p].addr_opponent = Addr(Other(p))
        /\ Synced(Other(p))

\* Two processes playing whole games, their players pressing the pause key
\* once a game is over.
PauseWhenOver == \E p \in Peers : proc[p].game_over /\ KeyDown(p, "p")
NextOver == Discover \/ Receive \/ PlayOut \/ PauseWhenOver
SpecOver == Init /\ [][NextOver]_vars

\* C21: while game_over is set no tick moves the ball or changes a score,
\* whatever pause toggles, local or received, came after the game ended.
C21_NoTickWhileGameOver ==
    [][\A p \in Peers :
          (proc[p].game_over /\ Tick(p, 2 * POINTS_TO_WIN))
              => /\ proc'[p].ball_x = proc[p].ball_x
                 /\ proc'[p].score1 = proc[p].score1
                 /\ proc'[p].score2 = proc[p].score2]_vars

RegistryKept(p) ==
    /\ proc'[p].addr_opponent = proc[p].addr_opponent
    /\ proc'[p].udp_peers = proc[p].udp_peers
    /\ proc'[p].peer_keys = proc[p].peer_keys

\* C22: a connected process that receives an init message, from its
\* opponent or from any other address, keeps its opponent address and the
\* transport's peers and keys as they are.
C22_InitWhileConnectedIgnored ==
    [][\A p \in Peers :
          (/\ proc[p].is_connected
           /\ \/ HeadIs(p, "init") /\ Deliver(p)
              \/ ForeignUdpOf(p, json_dumps(ForeignInitValid)))
              => RegistryKept(p)]_vars

\* C23: whatever sessions a process has been through, at most one periodic
\* driver of update is scheduled in it.
C23_OneTickDriver == \A p \in Peers : proc[p].drivers <= 1

\* C24: whenever both processes are synchronized and in session and no
\* datagram is in flight, they hold the same pause flag and the same two
\* scores, however their pause toggles, resets and scoring events interleave.
C24_ReplicasAgree ==
    (/\ InSession(1, 2) /\ Quiescent
     /\ \A p \in Peers : proc[p].is_synchronized)
        => /\ proc[1].pause = proc[2].pause
           /\ proc[1].score1 = proc[2].score1
           /\ proc[1].score2 = proc[2].score2

====
